---- MODULE Spec2Model ----
(***************************************************************************)
(* tiny-url: a Cloudflare Worker that redirects short codes to URLs.       *)
(*                                                                         *)
(*   src/src/worker.js lines   1-236  the worker (export default { fetch })*)
(*   src/src/worker.js lines 239-383  the build script (main)              *)
(*                                                                         *)
(*   src/unnamed/part_000             an earlier copy of the worker        *)
(*                                                                         *)
(* The build script reads urls.json, validates it and writes the worker    *)
(* with __URL_MAPPINGS__ replaced by the mapping.  The worker then serves  *)
(* requests against that constant mapping.  The worker the build embeds is *)
(* src/worker.js (WORKER_SOURCE, line 250): Spec is the build followed by  *)
(* that worker.  The earlier copy differs in the hit branch (no data point *)
(* is written) and in the not-found page (the first five keys, unfiltered);*)
(* SpecEarlier is the build followed by it.                                *)
(*                                                                         *)
(* JavaScript strings are modelled as sequences of one-character strings,  *)
(* so that indexing, length and comparison are those of the code.          *)
(***************************************************************************)
EXTENDS Integers, Sequences, FiniteSets, TLC

VARIABLES
    urlsFile,      \* the content of urls.json, as the build script finds it
    exitStatus,    \* the build's process exit status: "notrun", then "0" or "1"
    dist,          \* dist/worker.js: whether it is written, and the URL_MAPPINGS in it
    request,       \* url.pathname of the request handled last
    env,           \* the env of that invocation: its ANALYTICS binding and the calls made on it
    response,      \* what fetch returned (or the error it raised) for that request
    query,         \* suggestion engine alone: the requested code
    candidates,    \* suggestion engine alone: Object.keys(URL_MAPPINGS)
    result         \* suggestion engine alone: the list before .join(', ')

vars == <<urlsFile, exitStatus, dist, request, env, response, query, candidates, result>>

-----------------------------------------------------------------------------
(* Bounds of the model. *)

\* urls.json holds at most this many entries.
MaxEntries == 2

\* The suggestion engine alone is given at most this many candidate keys.
MaxCandidates == 6

-----------------------------------------------------------------------------
(* Strings. *)

sEmpty == << >>
sA == <<"a">>
sB == <<"b">>
sAB == <<"a", "b">>
sAC == <<"a", "c">>
sBC == <<"b", "c">>
sABC == <<"a", "b", "c">>
sABCD == <<"a", "b", "c", "d">>
sXYZ == <<"x", "y", "z">>
sHealth == <<"h", "e", "a", "l", "t", "h">>
sApiUrls == <<"a", "p", "i", "/", "u", "r", "l", "s">>
sSlashKey == <<"a", "/", "b">>
sSpaceKey == <<"a", " ", "b">>
sQuestionKey == <<"a", "?">>
sConstructor == <<"c", "o", "n", "s", "t", "r", "u", "c", "t", "o", "r">>
sToString == <<"t", "o", "S", "t", "r", "i", "n", "g">>
sValueOf == <<"v", "a", "l", "u", "e", "O", "f">>
sProto == <<"_", "_", "p", "r", "o", "t", "o", "_", "_">>
sUrlA == <<"h", "t", "t", "p", "s", ":", "/", "/", "a", ".", "i", "o">>
sUrlB == <<"h", "t", "t", "p", "s", ":", "/", "/", "b", ".", "i", "o">>
sNoUrl == <<"n", "o", "u", "r", "l">>

\* String.prototype.includes for a one-character needle.
Includes(s, ch) == \E i \in 1..Len(s) : s[i] = ch

\* String.prototype.substring(from) (from is 0-based).
Substring(s, from) == IF from >= Len(s) THEN << >> ELSE SubSeq(s, from + 1, Len(s))

\* Array.prototype.slice(0, n).
Slice(arr, n) == IF Len(arr) <= n THEN arr ELSE SubSeq(arr, 1, n)

\* Array.prototype.filter; the callback is given as the function of its results.
RECURSIVE Filter(_, _)
Filter(arr, keep) ==
    IF arr = << >> THEN << >>
    ELSE IF keep[Head(arr)] THEN <<Head(arr)>> \o Filter(Tail(arr), keep)
    ELSE Filter(Tail(arr), keep)

\* Array.prototype.join(', ').
RECURSIVE Join(_)
Join(arr) ==
    IF arr = << >> THEN << >>
    ELSE IF Len(arr) = 1 THEN Head(arr)
    ELSE Head(arr) \o <<",", " ">> \o Join(Tail(arr))

Min(x, y) == IF x <= y THEN x ELSE y

-----------------------------------------------------------------------------
(* The suggestion engine: worker.js lines 160-179. *)

\* The matrix after the two border loops (lines 161-164); a cell not yet
\* written is shown as -1 (undefined in the code, and never read before it
\* is written).
BorderMatrix(a, b) ==
    [i \in 0..Len(a) |-> [j \in 0..Len(b) |->
        IF i = 0 THEN j ELSE IF j = 0 THEN i ELSE -1]]

\* One cell of the nested loops (lines 168-173).
Cell(matrix, a, b, i, j) ==
    LET cost == IF a[i] = b[j] THEN 0 ELSE 1
    IN  Min(Min(matrix[i - 1][j] + 1, matrix[i][j - 1] + 1), matrix[i - 1][j - 1] + cost)

\* The nested loops (lines 166-175), from cell (i, j) on.
RECURSIVE FillMatrix(_, _, _, _, _)
FillMatrix(matrix, a, b, i, j) ==
    IF i > Len(a) THEN matrix
    ELSE IF j > Len(b) THEN FillMatrix(matrix, a, b, i + 1, 1)
    ELSE FillMatrix([matrix EXCEPT ![i][j] = Cell(matrix, a, b, i, j)], a, b, i, j + 1)

levenshtein(a, b) == FillMatrix(BorderMatrix(a, b), a, b, 1, 1)[Len(a)][Len(b)]

\* Mutant of SimilarKeys: the filter forgotten, the first five keys whatever
\* their distance.
SimilarKeysUnfiltered(keys, shortCode) == Slice(keys, 5)

\* Line 179 without the join: the keys kept, in the order of Object.keys.
SimilarKeys(keys, shortCode) ==
    LET close == [key \in {keys[i] : i \in 1..Len(keys)} |-> levenshtein(key, shortCode) <= 2]
    IN  Slice(Filter(keys, close), 5)

\* Line 179.
availableUrls(keys, shortCode) == Join(SimilarKeys(keys, shortCode))

-----------------------------------------------------------------------------
(* JavaScript values and objects. *)

String(text) == [type |-> "string", text |-> text]
Number == [type |-> "number"]
Undefined == [type |-> "undefined"]
\* What a property inherited from Object.prototype yields (constructor, toString, ...).
Inherited == [type |-> "function"]

\* An object (urls.json once parsed, URL_MAPPINGS) is the sequence of its own
\* entries [key, value] in insertion order, the keys distinct.  (No key of the
\* model is an integer index, which JavaScript would move to the front.)
ObjectKeys(obj) == [i \in 1..Len(obj) |-> obj[i].key]

ObjectEntries(obj) == obj

HasOwn(obj, prop) == \E i \in 1..Len(obj) : obj[i].key = prop

\* Property names every object literal inherits from Object.prototype.
ObjectPrototype == {sConstructor, sToString, sValueOf, sProto}

\* obj[prop]: the own property, else the inherited one, else undefined.
Get(obj, prop) ==
    IF HasOwn(obj, prop) THEN (CHOOSE e \in {obj[i] : i \in 1..Len(obj)} : e.key = prop).value
    ELSE IF prop \in ObjectPrototype THEN Inherited
    ELSE Undefined

\* if (value): undefined and the empty string are falsy; a function is truthy.
Truthy(value) ==
    CASE value.type = "undefined" -> FALSE
      [] value.type = "string" -> value.text # << >>
      [] OTHER -> TRUE

Letters == {"a", "b", "c", "d", "e", "f", "g", "h", "i", "j", "k", "l", "m",
            "n", "o", "p", "q", "r", "s", "t", "u", "v", "w", "x", "y", "z"}

\* new URL(value) with no base succeeds only on an absolute URL: a scheme of
\* letters, then ':'.  Anything else (a number, a word) throws.
UrlParses(value) ==
    /\ value.type = "string"
    /\ \E i \in 2..Len(value.text) :
          /\ value.text[i] = ":"
          /\ \A j \in 1..(i - 1) : value.text[j] \in Letters

-----------------------------------------------------------------------------
(* The build script: worker.js lines 254-376 (main). *)

NoFile == [written |-> FALSE, URL_MAPPINGS |-> << >>]

\* Lines 300-303: the key test of the validation loop.
KeyRejected(key) == Includes(key, "/") \/ Includes(key, " ") \/ Includes(key, "?")

\* Lines 294-311: one pass of the validation loop sets hasErrors or leaves it.
EntryHasErrors(entry) ==
    \/ entry.value.type # "string"
    \/ KeyRejected(entry.key)
    \/ ~UrlParses(entry.value)

\* Lines 293-311.
hasErrors(urls) == \E i \in 1..Len(urls) : EntryHasErrors(ObjectEntries(urls)[i])

\* Lines 267-316: the exits before anything is written.  (The exits of lines
\* 320-331 need src/worker.js to be missing or without its placeholder, which
\* line 5 holds.)
BuildAborts(file) ==
    \/ file.kind = "missing"        \* lines 267-271
    \/ file.kind = "unparsable"     \* lines 276-281
    \/ file.kind = "notobject"      \* lines 284-287
    \/ hasErrors(file.urls)         \* lines 313-316

\* Lines 333-339: the worker written with the placeholder replaced.
BuiltWorker(file) == [written |-> TRUE, URL_MAPPINGS |-> file.urls]

main ==
    /\ exitStatus = "notrun"
    /\ IF BuildAborts(urlsFile)
       THEN /\ exitStatus' = "1"
            /\ dist' = dist
       ELSE /\ exitStatus' = "0"
            /\ dist' = BuiltWorker(urlsFile)
    /\ UNCHANGED <<urlsFile, request, env, response, query, candidates, result>>

-----------------------------------------------------------------------------
(* The worker: worker.js lines 8-236 (fetch).  Timestamps (buildTime, "Last *)
(* built") and the page's fixed markup are left out of the bodies.          *)

sRoot == <<"/">>
sApiPath == <<"/">> \o sApiUrls
sHealthPath == <<"/">> \o sHealth

\* Lines 14-109.
HomeResponse(URL_MAPPINGS) ==
    [route |-> "home", status |-> 200,
     headers |-> [ContentType |-> "text/html", CacheControl |-> "public, max-age=3600"],
     body |-> [urlCount |-> Len(ObjectKeys(URL_MAPPINGS)), urlList |-> ObjectEntries(URL_MAPPINGS)]]

\* Mutant of ApiResponse: count leaves out the keys that spell a reserved route.
ApiResponseCountingRedirectable(URL_MAPPINGS) ==
    [route |-> "api", status |-> 200,
     headers |-> [ContentType |-> "application/json", AccessControlAllowOrigin |-> "*",
                  CacheControl |-> "public, max-age=3600"],
     body |-> [urls |-> URL_MAPPINGS,
               count |-> Cardinality({i \in 1..Len(URL_MAPPINGS) :
                                        URL_MAPPINGS[i].key \notin {sHealth, sApiUrls, << >>}})]]

\* Lines 112-124.
ApiResponse(URL_MAPPINGS) ==
    [route |-> "api", status |-> 200,
     headers |-> [ContentType |-> "application/json", AccessControlAllowOrigin |-> "*",
                  CacheControl |-> "public, max-age=3600"],
     body |-> [urls |-> URL_MAPPINGS, count |-> Len(ObjectKeys(URL_MAPPINGS))]]

\* Mutant of HealthResponse: an empty mapping reported as a fault.
HealthResponseFailingWhenEmpty(URL_MAPPINGS) ==
    [route |-> "health", status |-> 200,
     headers |-> [ContentType |-> "application/json"],
     body |-> [status |-> IF URL_MAPPINGS = << >> THEN "error" ELSE "ok",
               urlCount |-> Len(ObjectKeys(URL_MAPPINGS))]]

\* Lines 127-137.
HealthResponse(URL_MAPPINGS) ==
    [route |-> "health", status |-> 200,
     headers |-> [ContentType |-> "application/json"],
     body |-> [status |-> "ok", urlCount |-> Len(ObjectKeys(URL_MAPPINGS))]]

\* Lines 142-144: new Response('Not Found', { status: 404 }); a string body
\* with no headers given gets the default Content-Type of a string.
GenericNotFound ==
    [route |-> "generic404", status |-> 404,
     headers |-> [ContentType |-> "text/plain;charset=UTF-8"],
     body |-> [text |-> "Not Found"]]

\* Mutant of NotFoundResponse: the cache lifetime of the other pages.
NotFoundResponseCachedAnHour(URL_MAPPINGS, shortCode) ==
    [route |-> "notfound", status |-> 404,
     headers |-> [ContentType |-> "text/html", CacheControl |-> "public, max-age=3600"],
     body |-> [shortCode |-> shortCode,
               availableUrls |-> availableUrls(ObjectKeys(URL_MAPPINGS), shortCode)]]

\* Lines 179-233.
NotFoundResponse(URL_MAPPINGS, shortCode) ==
    [route |-> "notfound", status |-> 404,
     headers |-> [ContentType |-> "text/html", CacheControl |-> "public, max-age=300"],
     body |-> [shortCode |-> shortCode,
               availableUrls |-> availableUrls(ObjectKeys(URL_MAPPINGS), shortCode)]]

\* An error raised out of fetch: the runtime answers the request with its own
\* error page (status 500).
Exception(error) ==
    [route |-> "exception", status |-> 500, headers |-> [ContentType |-> "text/plain;charset=UTF-8"],
     body |-> [error |-> error]]

\* Line 157: Response.redirect(targetUrl, 301) parses its argument and throws
\* a TypeError on what is no absolute URL.
Redirect(targetUrl) ==
    IF UrlParses(targetUrl)
    THEN [route |-> "redirect", status |-> 301, headers |-> [Location |-> targetUrl.text],
          body |-> [text |-> ""]]
    ELSE Exception("TypeError")

\* Lines 152-155: the data point written.
DataPoint(targetUrl) == [blobs |-> <<targetUrl>>, doubles |-> <<1>>]

\* Mutant of Hit: the redirect without the data point.
HitWithoutDataPoint(targetUrl, analytics) == [response |-> Redirect(targetUrl), calls |-> << >>]

\* Lines 148-157: the hit branch, under the ANALYTICS binding of env:
\*   "ok"      writeDataPoint returns
\*   "throws"  writeDataPoint is called and throws
\*   "absent"  env.ANALYTICS is undefined, so reading .writeDataPoint throws
\* No try/catch surrounds the call.
Hit(targetUrl, analytics) ==
    CASE analytics = "absent" -> [response |-> Exception("TypeError"), calls |-> << >>]
      [] analytics = "throws" -> [response |-> Exception("Error"), calls |-> <<DataPoint(targetUrl)>>]
      [] OTHER -> [response |-> Redirect(targetUrl), calls |-> <<DataPoint(targetUrl)>>]

\* Lines 10-235: the response and the calls made on env.ANALYTICS.
fetch(path, URL_MAPPINGS, analytics) ==
    IF path = sRoot THEN [response |-> HomeResponse(URL_MAPPINGS), calls |-> << >>]
    ELSE IF path = sApiPath THEN [response |-> ApiResponse(URL_MAPPINGS), calls |-> << >>]
    ELSE IF path = sHealthPath THEN [response |-> HealthResponse(URL_MAPPINGS), calls |-> << >>]
    ELSE LET shortCode == Substring(path, 1)
             targetUrl == Get(URL_MAPPINGS, shortCode)
         IN  IF shortCode = << >> THEN [response |-> GenericNotFound, calls |-> << >>]
             ELSE IF Truthy(targetUrl) THEN Hit(targetUrl, analytics)
             ELSE [response |-> NotFoundResponse(URL_MAPPINGS, shortCode), calls |-> << >>]

-----------------------------------------------------------------------------
(* Inputs. *)

\* The arrangements of at most n distinct elements of S.
RECURSIVE Arrangements(_, _)
Arrangements(S, n) ==
    IF n = 0 THEN {<< >>}
    ELSE {<< >>} \cup UNION {{<<x>> \o t : t \in Arrangements(S \ {x}, n - 1)} : x \in S}

KeyPool == {sEmpty, sAB, sABC, sXYZ, sHealth, sSlashKey, sSpaceKey, sQuestionKey}

ValuePool == {String(sUrlA), String(sUrlB), String(sNoUrl), Number}

\* The objects urls.json may hold: at most MaxEntries entries, the keys distinct.
Objects ==
    UNION {{[i \in 1..Len(keys) |-> [key |-> keys[i], value |-> values[i]]] :
                values \in [1..Len(keys) -> ValuePool]} : keys \in Arrangements(KeyPool, MaxEntries)}

UrlsFiles ==
    {[kind |-> k, urls |-> << >>] : k \in {"missing", "unparsable", "notobject"}}
        \cup {[kind |-> "object", urls |-> urls] : urls \in Objects}

\* url.pathname of the requests: the reserved routes, the empty path (a URL
\* with no path at all), hits, misses and a name of Object.prototype.
Paths ==
    {sRoot, sApiPath, sHealthPath, sEmpty}
        \cup {<<"/">> \o code : code \in {sAB, sABC, sAC, sXYZ, sConstructor}}

Bindings == {"ok", "throws", "absent"}

NoResponse == [route |-> "none", status |-> 0, headers |-> [ContentType |-> ""], body |-> [text |-> ""]]

NoEnv == [ANALYTICS |-> "absent", calls |-> << >>]

NoResult == [done |-> FALSE, keys |-> << >>, joined |-> << >>]

-----------------------------------------------------------------------------
(* The build, then the worker serving requests. *)

Init ==
    /\ urlsFile \in UrlsFiles
    /\ exitStatus = "notrun"
    /\ dist = NoFile
    /\ request = << >>
    /\ env = NoEnv
    /\ response = NoResponse
    /\ query = << >>
    /\ candidates = << >>
    /\ result = NoResult

\* One request served by the deployed worker.
Serve ==
    /\ dist.written
    /\ \E path \in Paths, analytics \in Bindings :
          LET r == fetch(path, dist.URL_MAPPINGS, analytics)
          IN  /\ request' = path
              /\ env' = [ANALYTICS |-> analytics, calls |-> r.calls]
              /\ response' = r.response
    /\ UNCHANGED <<urlsFile, exitStatus, dist, query, candidates, result>>

Next == main \/ Serve

Spec == Init /\ [][Next]_vars

-----------------------------------------------------------------------------
(* The earlier copy of the worker: part_000 lines 7-209.  Its home page,   *)
(* API listing, health check and bare 404 are those of worker.js.          *)

\* part_000 lines 153-206: the first five keys, and "..." when there are more.
EarlierNotFoundResponse(URL_MAPPINGS, shortCode) ==
    [route |-> "notfound", status |-> 404,
     headers |-> [ContentType |-> "text/html", CacheControl |-> "public, max-age=300"],
     body |-> [shortCode |-> shortCode,
               availableUrls |-> Join(Slice(ObjectKeys(URL_MAPPINGS), 5)),
               more |-> Len(ObjectKeys(URL_MAPPINGS)) > 5]]

\* part_000 lines 8-208.
fetchEarlier(path, URL_MAPPINGS) ==
    IF path = sRoot THEN [response |-> HomeResponse(URL_MAPPINGS), calls |-> << >>]
    ELSE IF path = sApiPath THEN [response |-> ApiResponse(URL_MAPPINGS), calls |-> << >>]
    ELSE IF path = sHealthPath THEN [response |-> HealthResponse(URL_MAPPINGS), calls |-> << >>]
    ELSE LET shortCode == Substring(path, 1)
             targetUrl == Get(URL_MAPPINGS, shortCode)
         IN  IF shortCode = << >> THEN [response |-> GenericNotFound, calls |-> << >>]
             ELSE IF Truthy(targetUrl) THEN [response |-> Redirect(targetUrl), calls |-> << >>]
             ELSE [response |-> EarlierNotFoundResponse(URL_MAPPINGS, shortCode), calls |-> << >>]

ServeEarlier ==
    /\ dist.written
    /\ \E path \in Paths, analytics \in Bindings :
          LET r == fetchEarlier(path, dist.URL_MAPPINGS)
          IN  /\ request' = path
              /\ env' = [ANALYTICS |-> analytics, calls |-> r.calls]
              /\ response' = r.response
    /\ UNCHANGED <<urlsFile, exitStatus, dist, query, candidates, result>>

NextEarlier == main \/ ServeEarlier

SpecEarlier == Init /\ [][NextEarlier]_vars

-----------------------------------------------------------------------------
(* The suggestion engine alone, on every query and candidate list of its   *)
(* pools.                                                                  *)

CandidatePool == {sA, sB, sAB, sBC, sABC, sABCD, sXYZ}

Queries == {sEmpty, sAB, sABC}

InitSuggest ==
    /\ urlsFile = [kind |-> "missing", urls |-> << >>]
    /\ exitStatus = "notrun"
    /\ dist = NoFile
    /\ request = << >>
    /\ env = NoEnv
    /\ response = NoResponse
    /\ query \in Queries
    /\ candidates \in Arrangements(CandidatePool, MaxCandidates)
    /\ result = NoResult

Suggest ==
    /\ ~result.done
    /\ result' = [done |-> TRUE, keys |-> SimilarKeys(candidates, query),
                  joined |-> availableUrls(candidates, query)]
    /\ UNCHANGED <<urlsFile, exitStatus, dist, request, env, response, query, candidates>>

NextSuggest == Suggest

SpecSuggest == InitSuggest /\ [][NextSuggest]_vars

-----------------------------------------------------------------------------
(* What the claims speak of. *)

\* The mapping the deployed worker holds.
M == dist.URL_MAPPINGS

Served == response.route # "none"

\* The short code a path asks for: the path without its leading "/".
CodeOf(path) == IF path = << >> THEN << >> ELSE Tail(path)

Reserved(path) == path \in {sRoot, sApiPath, sHealthPath}

\* A response header, "(absent)" when the response does not carry it.
Header(resp, name) == IF name \in DOMAIN resp.headers THEN resp.headers[name] ELSE "(absent)"

\* The routing outcome of a response: its route and status, the target of a
\* redirect, the suggestions of a not-found page.
Outcome(resp) ==
    CASE resp.route = "redirect" ->
            [route |-> resp.route, status |-> resp.status, target |-> resp.headers.Location]
      [] resp.route = "notfound" ->
            [route |-> resp.route, status |-> resp.status, suggestions |-> resp.body.availableUrls]
      [] OTHER -> [route |-> resp.route, status |-> resp.status]

\* The edit distance by its definition: the least number of single-character
\* insertions, deletions and substitutions turning a into b.
RECURSIVE EditDistance(_, _)
EditDistance(a, b) ==
    IF a = << >> THEN Len(b)
    ELSE IF b = << >> THEN Len(a)
    ELSE IF Head(a) = Head(b) THEN EditDistance(Tail(a), Tail(b))
    ELSE 1 + Min(Min(EditDistance(Tail(a), b), EditDistance(a, Tail(b))),
                 EditDistance(Tail(a), Tail(b)))

\* The positions of the candidates within distance 2 of q.
ClosePositions(C, q) == {i \in 1..Len(C) : EditDistance(C[i], q) <= 2}

\* The n-th smallest element of a set of positions.
NthPosition(I, n) == CHOOSE i \in I : Cardinality({j \in I : j < i}) = n - 1

\* The first five candidates within distance 2 of q, in the order of C.
FirstFiveClose(C, q) ==
    LET I == ClosePositions(C, q)
        n == Min(5, Cardinality(I))
    IN  [k \in 1..n |-> C[NthPosition(I, k)]]

\* The rules the build is said to enforce on an entry.
ValidEntry(entry) ==
    /\ entry.key # << >>
    /\ ~Includes(entry.key, "/") /\ ~Includes(entry.key, " ") /\ ~Includes(entry.key, "?")
    /\ UrlParses(entry.value)

-----------------------------------------------------------------------------
(* The claims. *)

\* C1: for every key k of the built mapping, the request for "/" followed by
\* k is answered by a 301 redirect to M[k], and nothing else.
C1_EveryKeyRedirects ==
    (Served /\ request # << >> /\ Head(request) = "/" /\ HasOwn(M, CodeOf(request)))
        => /\ response.status = 301
           /\ Header(response, "Location") = Get(M, CodeOf(request)).text

\* C2: a request for a non-empty short code that is no key of the mapping, on
\* a path that is no reserved route, is answered 404, and the suggestions are
\* at most 5 distinct keys of M, each within edit distance 2 of the code.
C2_MissIsNotFound ==
    (Served /\ ~Reserved(request) /\ CodeOf(request) # << >> /\ ~HasOwn(M, CodeOf(request)))
        => /\ response.status = 404
           /\ response.route = "notfound"
           /\ \E list \in Arrangements({k \in KeyPool : HasOwn(M, k)}, 5) :
                 /\ response.body.availableUrls = Join(list)
                 /\ \A i \in 1..Len(list) : EditDistance(list[i], CodeOf(request)) <= 2

\* C3: on a redirect hit, a failing analytics sink (the write throws, or the
\* binding is absent) leaves the response the 301 redirect to the destination.
C3_SinkFailureKeepsRedirect ==
    (Served /\ ~Reserved(request) /\ CodeOf(request) # << >> /\ HasOwn(M, CodeOf(request))
        /\ env.ANALYTICS \in {"throws", "absent"})
        => /\ response.status = 301
           /\ Header(response, "Location") = Get(M, CodeOf(request)).text

\* C4: the suggestion result is the first 5, in the order of the candidates,
\* of the candidates whose edit distance to the query is at most 2, the
\* distance being the minimum edit count; with the three stated examples.
C4_SuggestFirstFiveClose ==
    result.done =>
        /\ result.keys = FirstFiveClose(candidates, query)
        /\ \A i \in 1..Len(candidates) :
              levenshtein(candidates[i], query) = EditDistance(candidates[i], query)
        /\ candidates = << >> => result.keys = << >>
        /\ (query = sAB /\ candidates = <<sAB>>) => result.keys = <<sAB>>
        /\ (query = sABC /\ candidates = <<sAB, sXYZ, sABCD>>) => result.keys = <<sAB, sABCD>>

\* C4 witness: six candidates all within distance 2 of the query, of which
\* the first five are returned and the sixth is cut.
C4_Witness ==
    /\ result.done
    /\ Len(candidates) = 6
    /\ Cardinality(ClosePositions(candidates, query)) = 6
    /\ Len(result.keys) = 5
    /\ result.keys = SubSeq(candidates, 1, 5)

C6_ApiListsMapping ==
    (Served /\ request = sApiPath)
        => /\ response.status = 200
           /\ Header(response, "ContentType") = "application/json"
           /\ Header(response, "AccessControlAllowOrigin") = "*"
           /\ response.body.urls = urlsFile.urls
           /\ response.body.count = Cardinality({urlsFile.urls[i].key : i \in 1..Len(urlsFile.urls)})

\* C6 witness: the listing of a two-entry mapping one of whose keys is "health".
C6_Witness ==
    /\ Served
    /\ request = sApiPath
    /\ HasOwn(M, sHealth)
    /\ response.body.count = 2

\* C7: "/health" is answered 200 with a JSON body of status "ok" and urlCount
\* the number of keys of the mapping, the empty mapping included.
C7_HealthIsOk ==
    (Served /\ request = sHealthPath)
        => /\ response.status = 200
           /\ Header(response, "ContentType") = "application/json"
           /\ response.body.status = "ok"
           /\ response.body.urlCount = Cardinality({urlsFile.urls[i].key : i \in 1..Len(urlsFile.urls)})

\* C7 witness: the health check of a worker built from an empty mapping.
C7_Witness ==
    /\ Served
    /\ request = sHealthPath
    /\ M = << >>
    /\ response.body.urlCount = 0

\* C8: two requests with the same path are answered alike (same route, status,
\* redirect target or suggestions), whatever the analytics sink does.
C8_SamePathSameOutcome ==
    [][(Served /\ request' = request) => Outcome(response') = Outcome(response)]_vars

\* C9: the build succeeds only on a mapping all of whose entries are valid
\* (key non-empty and without '/', space, '?'; value an absolute URL); any
\* invalid entry makes it exit non-zero with no worker written.
C9_BuildRejectsInvalid ==
    (exitStatus # "notrun" /\ urlsFile.kind = "object"
        /\ \E i \in 1..Len(urlsFile.urls) : ~ValidEntry(urlsFile.urls[i]))
        => /\ exitStatus = "1"
           /\ ~dist.written

\* C10: a request answered by a redirect has written exactly one data point,
\* the destination with the value 1; a request answered by the home page, the
\* API listing, the health check or a 404 has written none.
C10_SinkOncePerRedirect ==
    Served =>
        /\ response.status = 301 =>
              /\ Len(env.calls) = 1
              /\ env.calls[1].blobs = <<Get(M, CodeOf(request))>>
              /\ env.calls[1].blobs[1].text = Header(response, "Location")
              /\ env.calls[1].doubles = <<1>>
        /\ response.status \in {200, 404} => env.calls = << >>

\* C10 witness: a redirect hit with its one data point written.
C10_Witness ==
    /\ Served
    /\ response.status = 301
    /\ env.ANALYTICS = "ok"
    /\ Len(env.calls) = 1

====
